---------------------------- MODULE Spec2Model ----------------------------
(***************************************************************************)
(* Hybrid content storage and deduplicated ingestion of DBD news           *)
(* (src/api/news_scraper.py, src/api/scheduled_news_fetcher.py, the posts  *)
(* handler of src/api/function_app.py).                                    *)
(*                                                                         *)
(* Text.  A Python str is modelled as its run-length encoding: a sequence  *)
(* of runs [ch |-> c, n |-> k] (k > 0, adjacent runs have different c).    *)
(* A character c is written as itself when it is ASCII and as "U+0Exx"     *)
(* when it is a Thai code point.  The encoding is canonical, so equality   *)
(* of encodings is equality of the strings, and the real sizes of the      *)
(* program (5 KiB, 500 characters) are used unscaled.                      *)
(*                                                                         *)
(* Optional values.  None is <<>> and a value v is <<v>>.  A dict is a     *)
(* record; a key the code never sets is absent from its DOMAIN.            *)
(***************************************************************************)
EXTENDS Integers, Sequences, FiniteSets, TLC

(***************************************************************************)
(* Bounds of the model.                                                    *)
(***************************************************************************)
MaxRuns == 2
MaxBatch == 2
MaxClock == 1
MaxFaults == 1
MaxStrRuns == 4
MaxRunLen == 2
MaxN == 7

(***************************************************************************)
(* Optional values and dict access.                                        *)
(***************************************************************************)
None == <<>>

Some(v) == <<v>>

Get(d, key) == IF key \in DOMAIN d THEN d[key] ELSE None

Range(q) == {q[i] : i \in 1..Len(q)}

(***************************************************************************)
(* Run-length encoded strings.                                             *)
(***************************************************************************)
EmptyStr == <<>>

Rep(c, k) == IF k <= 0 THEN <<>> ELSE <<[ch |-> c, n |-> k]>>

Concat(s, t) ==
    IF s = <<>> THEN t
    ELSE IF t = <<>> THEN s
    ELSE IF s[Len(s)].ch = t[1].ch
         THEN SubSeq(s, 1, Len(s) - 1)
              \o <<[ch |-> t[1].ch, n |-> s[Len(s)].n + t[1].n]>>
              \o Tail(t)
         ELSE s \o t

RECURSIVE FromSeq(_)
FromSeq(cs) ==
    IF cs = <<>> THEN <<>>
    ELSE Concat(Rep(cs[1], 1), FromSeq(Tail(cs)))

RECURSIVE ToSeq(_)
ToSeq(s) ==
    IF s = <<>> THEN <<>>
    ELSE [i \in 1..s[1].n |-> s[1].ch] \o ToSeq(Tail(s))

\* len(s)
RECURSIVE StrLen(_)
StrLen(s) == IF s = <<>> THEN 0 ELSE s[1].n + StrLen(Tail(s))

ThaiChars ==
    {"U+0E01", "U+0E15", "U+0E19", "U+0E1E", "U+0E21", "U+0E2D",
     "U+0E32", "U+0E34", "U+0E40", "U+0E48"}

\* bytes of one character in UTF-8
Utf8Width(c) == IF c \in ThaiChars THEN 3 ELSE 1

\* len(s.encode('utf-8'))
RECURSIVE Utf8Len(_)
Utf8Len(s) ==
    IF s = <<>> THEN 0 ELSE s[1].n * Utf8Width(s[1].ch) + Utf8Len(Tail(s))

\* s[:k] for k >= 0
RECURSIVE Slice(_, _)
Slice(s, k) ==
    IF k <= 0 \/ s = <<>> THEN <<>>
    ELSE IF s[1].n >= k THEN Rep(s[1].ch, k)
    ELSE <<s[1]>> \o Slice(Tail(s), k - s[1].n)

\* s.rfind(c) for a single character c: index of its last occurrence, or -1
RECURSIVE RFind(_, _)
RFind(s, c) ==
    IF s = <<>> THEN -1
    ELSE IF s[Len(s)].ch = c THEN StrLen(s) - 1
    ELSE RFind(SubSeq(s, 1, Len(s) - 1), c)

(***************************************************************************)
(* news_scraper.py: tier decision and preview.                             *)
(***************************************************************************)
DefaultThresholdKb == 5

DefaultMaxLength == 500

Ellipsis == Rep(".", 3)

\* content_size_kb = bytes / 1024; content_size_kb >= threshold_kb.
\* The quotient is a float: b / 1024 >= t exactly when b >= 1024 * t.
should_store_in_blob_chars(content, threshold_kb) ==
    StrLen(content) >= 1024 * threshold_kb

should_store_in_blob(content, threshold_kb) ==
    Utf8Len(content) >= 1024 * threshold_kb

\* last_space > max_length * 0.8 compares an int with a float:
\* it is 5 * last_space > 4 * max_length.
create_content_preview_nocut(content, max_length) ==
    IF StrLen(content) <= max_length THEN content
    ELSE Concat(Slice(content, max_length), Ellipsis)

create_content_preview_always(content, max_length) ==
    Concat(Slice(content, max_length), Ellipsis)

create_content_preview(content, max_length) ==
    IF StrLen(content) <= max_length THEN content
    ELSE LET preview == Slice(content, max_length)
             last_space == RFind(preview, " ")
         IN  IF 5 * last_space > 4 * max_length
             THEN Concat(Slice(preview, last_space), Ellipsis)
             ELSE Concat(preview, Ellipsis)


(***************************************************************************)
(* news_scraper.py: parse_thai_date.                                       *)
(*                                                                         *)
(* A date string is a sequence of lexemes: a numeral (a maximal run of     *)
(* digits, with its value), a word (a maximal run of letters), a comma or  *)
(* one whitespace character.  Two numerals or two words are never          *)
(* adjacent.                                                               *)
(***************************************************************************)
Num(n) == [k |-> "num", n |-> n, w |-> ""]

Word(w) == [k |-> "word", n |-> 0, w |-> w]

Comma == [k |-> "comma", n |-> 0, w |-> ""]

Sp == [k |-> "sp", n |-> 0, w |-> ""]

\* thai_months (lines 41-45): the name of month i, transliterated
ThaiMonthNames ==
    <<"mokarakhom", "kumphaphan", "minakhom", "mesayon", "phruetsaphakhom",
      "mithunayon", "karakadakhom", "singhakhom", "kanyayon", "tulakhom",
      "phruetsachikayon", "thanwakhom">>

\* english_months (lines 48-52)
EnglishMonthNames ==
    <<"January", "February", "March", "April", "May", "June", "July",
      "August", "September", "October", "November", "December">>

\* names[w] for a name w of the dict
MonthOf(names, w) == CHOOSE i \in 1..Len(names) : names[i] = w

\* thai_date.strip().split(): the maximal runs of lexemes other than whitespace
RECURSIVE SplitFrom(_, _, _)
SplitFrom(s, i, cur) ==
    IF i > Len(s) THEN (IF cur = <<>> THEN <<>> ELSE <<cur>>)
    ELSE IF s[i].k = "sp"
         THEN (IF cur = <<>> THEN <<>> ELSE <<cur>>) \o SplitFrom(s, i + 1, <<>>)
         ELSE SplitFrom(s, i + 1, Append(cur, s[i]))

Split(s) == SplitFrom(s, 1, <<>>)

\* int(token): None when it raises ValueError
IntOf(token) ==
    IF Len(token) = 1 /\ token[1].k = "num" THEN Some(token[1].n) ELSE None

IsLeap(y) == y % 4 = 0 /\ (y % 100 # 0 \/ y % 400 = 0)

DaysIn(y, m) ==
    IF m = 2 THEN (IF IsLeap(y) THEN 29 ELSE 28)
    ELSE IF m \in {4, 6, 9, 11} THEN 30 ELSE 31

\* datetime(year, month, day) does not raise
ValidDate(y, m, d) ==
    /\ y >= 1 /\ y <= 9999
    /\ m >= 1 /\ m <= 12
    /\ d >= 1 /\ d <= DaysIn(y, m)

\* date_obj.isoformat() + 'Z': 'YYYY-MM-DDT00:00:00Z'
IsoZ(y, m, d) == [form |-> "naive+Z", year |-> y, month |-> m, day |-> d, at |-> 0]

\* datetime.now(timezone.utc).isoformat(), at instant now
IsoNow(now) == [form |-> "aware", year |-> 0, month |-> 0, day |-> 0, at |-> now]

\* lines 62-66: the year after the Buddhist-era conversion
GregorianYear_unshifted(year, thai) == year

GregorianYear(year, thai) ==
    IF thai /\ year > 2500 THEN year - 543 ELSE year

\* the string without repeated whitespace
RECURSIVE Squeeze(_)
Squeeze(s) ==
    IF Len(s) <= 1 THEN s
    ELSE IF s[1].k = "sp" /\ s[2].k = "sp" THEN Squeeze(Tail(s))
    ELSE <<s[1]>> \o Squeeze(Tail(s))

\* datetime.strptime(thai_date, '%B %d, %Y').isoformat() + 'Z': the whole
\* string is a month name, whitespace, a day, a comma, whitespace, a year of
\* four digits.  None when it raises ValueError.
Strptime(thai_date) ==
    LET q == Squeeze(thai_date)
    IN  IF /\ Len(q) = 6
           /\ q[1].k = "word" /\ q[1].w \in Range(EnglishMonthNames)
           /\ q[2].k = "sp"
           /\ q[3].k = "num" /\ q[3].n >= 1 /\ q[3].n <= 31
           /\ q[4].k = "comma"
           /\ q[5].k = "sp"
           /\ q[6].k = "num" /\ q[6].n >= 1000 /\ q[6].n <= 9999
           /\ ValidDate(q[6].n, MonthOf(EnglishMonthNames, q[1].w), q[3].n)
        THEN Some(IsoZ(q[6].n, MonthOf(EnglishMonthNames, q[1].w), q[3].n))
        ELSE None

\* the try block (lines 39-83): the value returned, None when it raises
ParseBody(thai_date, now) ==
    LET parts == Split(thai_date)
    IN  IF Len(parts) = 3
        THEN LET day == IntOf(parts[1])
                 month_name == parts[2]
                 year == IntOf(parts[3])
                 name == IF Len(month_name) = 1 /\ month_name[1].k = "word"
                         THEN month_name[1].w ELSE ""
             IN  IF day = None \/ year = None THEN None
                 ELSE IF name \in Range(ThaiMonthNames)
                 THEN LET month == MonthOf(ThaiMonthNames, name)
                          y == GregorianYear(year[1], TRUE)
                      IN  IF ValidDate(y, month, day[1])
                          THEN Some(IsoZ(y, month, day[1])) ELSE None
                 ELSE IF name \in Range(EnglishMonthNames)
                 THEN LET month == MonthOf(EnglishMonthNames, name)
                          y == GregorianYear(year[1], FALSE)
                      IN  IF ValidDate(y, month, day[1])
                          THEN Some(IsoZ(y, month, day[1])) ELSE None
                 ELSE None
        ELSE IF \E i \in 1..Len(thai_date) : thai_date[i].k = "comma"
        THEN Strptime(thai_date)
        ELSE Some(IsoNow(now))

\* parse_thai_date: Some(the value returned), None if an exception escaped
parse_thai_date_uncaught(thai_date, now) ==
    IF thai_date = <<>> THEN Some(IsoNow(now)) ELSE ParseBody(thai_date, now)

parse_thai_date(thai_date, now) ==
    IF thai_date = <<>> THEN Some(IsoNow(now))
    ELSE LET r == ParseBody(thai_date, now)
         IN  IF r = None THEN Some(IsoNow(now)) ELSE r

(***************************************************************************)
(* State.                                                                  *)
(*   store    the documents of the Cosmos container 'posts', in the order  *)
(*            they were created                                            *)
(*   blobs    the blobs of the storage account: [container, name, content] *)
(*   clock    the current second (datetime.now)                            *)
(*   runs     the number of calls of fetch_and_save_dbd_news, of           *)
(*            fetch_news_as_posts and of update_post so far; handlers are  *)
(*            called one at a time                                         *)
(*   pc, articles, idx, tags, current_max_order, stats                     *)
(*            the locals of the call of save_articles_to_db in progress    *)
(*   faults   the number of external calls of those calls that have failed *)
(*   last_failed  the external calls that failed in the latest step of an   *)
(*            ingestion call (history)                                     *)
(*   before   the number of documents when the call in progress began      *)
(*            (history)                                                    *)
(*   began    of the ingestion call in progress or last made (history):    *)
(*            again, it was given the batch of the ingestion call before   *)
(*            it; faults, the value of faults when it began                *)
(*   updated  the ids of the documents whose latest write was a successful *)
(*            update_post (history)                                        *)
(*   running  the locals of the timer's and of the manual endpoint's call  *)
(*            of fetch_and_save_dbd_news when the two run at the same time *)
(*   ret      the value a call has returned, until its caller takes it     *)
(*   p_*      the argument and results of one call of the pure functions   *)
(*            (p_date, p_iso, p_article: of parse_thai_date and of the     *)
(*            extraction of one item)                                      *)
(***************************************************************************)
VARIABLES store, blobs, clock, runs, faults, last_failed, pc, articles, idx,
          tags, current_max_order, stats, before, began, updated, running, ret,
          p_content, p_shape, p_n, p_tier, p_preview,
          p_date, p_iso, p_article

previewVars == <<p_content, p_shape, p_n, p_tier, p_preview>>

dateVars == <<p_date, p_iso, p_article>>

pureVars == <<previewVars, dateVars>>

runVars == <<pc, articles, idx, tags, current_max_order, stats>>

sysVars == <<store, blobs, clock, runs, faults, last_failed, before, began,
             updated, running, ret>>

vars == <<sysVars, runVars, pureVars>>

(***************************************************************************)
(* String constants of the program.                                        *)
(***************************************************************************)
\* "\n\n" + the Thai for "read more" + ": "  (scheduled_news_fetcher.py:107)
ReadMore ==
    FromSeq(<<"\n", "\n", "U+0E2D", "U+0E48", "U+0E32", "U+0E19", "U+0E40",
              "U+0E1E", "U+0E34", "U+0E48", "U+0E21", "U+0E40", "U+0E15",
              "U+0E34", "U+0E21", ":", " ">>)

\* 'https://www.dbd.go.th/news/'  (news_scraper.py:274)
NewsUrl == FromSeq(<<"h", "t", "t", "p", "s", ":", "/", "/", "w", "w", "w", ".", "d", "b", "d", ".", "g", "o", ".", "t", "h", "/", "n", "e", "w", "s", "/">>)

\* the segments of 'https://<account>.blob.core.windows.net' split at '/'
BlobEndpoint == <<FromSeq(<<"h", "t", "t", "p", "s", ":">>), EmptyStr, FromSeq(<<"d", "b", "d", ".", "b", "l", "o", "b", ".", "c", "o", "r", "e", ".", "w", "i", "n", "d", "o", "w", "s", ".", "n", "e", "t">>)>>

\* container="articles"  (news_scraper.py:122)
ArticlesContainer == FromSeq(<<"a", "r", "t", "i", "c", "l", "e", "s">>)

(***************************************************************************)
(* The extractor's articles (scrape_dbd_news).  A slug is ten equal        *)
(* digits; its article is fixed.                                           *)
(***************************************************************************)
Slugs == {"1", "2"}

SlugStr(d) == Rep(d, 10)

\* "1": 5039 letters, 5119 bytes with the read-more suffix: one under 5 KiB
\* "2": Thai text of 5851 bytes whose only space is at index 450
ArticleContent(d) ==
    CASE d = "1" -> Rep("a", 5039)
      [] d = "2" -> Concat(Rep("U+0E01", 450),
                           Concat(Rep(" ", 1), Rep("U+0E01", 1500)))

\* the publish instant parse_thai_date gave, as the index of the instant
ArticleDate(d) == CASE d = "1" -> 2 [] d = "2" -> 1

TitleStem == FromSeq(<<"N", "e", "w", "s", " ">>)

\* news_scraper.py:279-288
Article(d) ==
    [title |-> Concat(TitleStem, SlugStr(d)),
     content |-> ArticleContent(d),
     link |-> Concat(NewsUrl, SlugStr(d)),
     created_at |-> ArticleDate(d),
     slug |-> SlugStr(d)]

\* scrape_dbd_news, one item of the result (lines 260-295): Some(article),
\* None when the item raised and was left out
ExtractItem(item, now) ==
    LET iso_date == parse_thai_date(item.date, now)
    IN  IF iso_date = None THEN None
        ELSE Some([title |-> item.title,
                   link |-> Concat(NewsUrl, item.slug),
                   date |-> item.date,
                   created_at |-> iso_date[1],
                   slug |-> item.slug])

RECURSIVE SeqsUpTo(_, _)
SeqsUpTo(S, k) ==
    IF k = 0 THEN {<<>>}
    ELSE LET shorter == SeqsUpTo(S, k - 1)
         IN  shorter \cup {Append(q, x) : <<q, x>> \in
                              {t \in shorter \X S : Len(t[1]) = k - 1}}

Batches == {[i \in 1..Len(q) |-> Article(q[i])] : q \in SeqsUpTo(Slugs, MaxBatch)}

\* the keyword argument: none, a new tag, one of the base tags
Keywords == {"", "SME", "DBD"}

(***************************************************************************)
(* Blob storage (news_scraper.py:104-171).  A URL and a blob name are      *)
(* kept as their segments between '/' characters, so that                  *)
(* blob_url.split('/') is the URL itself.                                  *)
(***************************************************************************)
Digits == <<"0", "1", "2", "3", "4", "5", "6", "7", "8", "9">>

FirstSeconds == FromSeq(<<"2", "0", "2", "5", "1", "0", "2", "2", "0", "0", "0", "0", "0">>)

ArticlesDir == FromSeq(<<"a", "r", "t", "i", "c", "l", "e", "s">>)

DbdPrefix == FromSeq(<<"d", "b", "d", "-">>)

TxtSuffix == FromSeq(<<".", "t", "x", "t">>)

\* strftime('%Y%m%d%H%M%S') of second number now of 22 October 2025
TimeStamp(now) ==
    Concat(FirstSeconds,
           Rep(Digits[now + 1], 1))

\* f"articles/dbd-{slug}-{timestamp}.txt"
BlobName(slug, now) ==
    <<ArticlesDir,
      Concat(DbdPrefix,
             Concat(slug, Concat(Rep("-", 1), Concat(TimeStamp(now), TxtSuffix))))>>

\* blob_client.url
BlobUrl(container, name) == BlobEndpoint \o <<container>> \o name

Upload(bs, container, name, content) ==
    {b \in bs : ~(b.container = container /\ b.name = name)}
        \cup {[container |-> container, name |-> name, content |-> content]}

\* ok: the client was created and upload_blob did not raise.
\* Returns the URL (or None) and the blobs afterwards.
store_content_in_blob(bs, content, blob_name, ok) ==
    IF ok
    THEN [url |-> Some(BlobUrl(ArticlesContainer, blob_name)),
          blobs |-> Upload(bs, ArticlesContainer, blob_name, content)]
    ELSE [url |-> None, blobs |-> bs]

\* ok: the client was created and the transport did not fail; a blob that
\* does not exist makes download_blob raise, which is caught.
get_content_from_blob(bs, blob_url, ok) ==
    IF ~ok \/ Len(blob_url) < 2 THEN None
    ELSE LET container_name == blob_url[Len(blob_url) - 1]
             blob_name == <<blob_url[Len(blob_url)]>>
             found == {b \in bs : b.container = container_name
                                   /\ b.name = blob_name}
         IN  IF found = {} THEN None
             ELSE Some((CHOOSE b \in found : TRUE).content)

\* Python truth of an Optional[str]
Truthy(opt) == opt # None /\ opt[1] # <<>>

(***************************************************************************)
(* scheduled_news_fetcher.py.                                              *)
(***************************************************************************)
FetcherBaseTags == <<"DBD", "krom-phatthana-thurakit-kankha", "khao-prachasamphan">>

ZeroStats == [saved |-> 0, skipped |-> 0, errors |-> 0]

\* The two callers of fetch_and_save_dbd_news (function_app.py):
\* scheduled_dbd_news_fetch and manual_news_fetch.
Invocations == {"timer", "manual"}

\* the locals of a call that is not running, and the value it returned
CallIdle ==
    [pc |-> "idle", articles |-> <<>>, idx |-> 0, tags |-> <<>>,
     current_max_order |-> 0, stats |-> ZeroStats, result |-> None]

HistoryIdle ==
    /\ began = [again |-> FALSE, faults |-> 0]
    /\ updated = {}
    /\ running = [c \in Invocations |-> CallIdle]

\* stats[field] += 1
Bump_forgets_skipped(st, field) ==
    IF field = "skipped" THEN st ELSE [st EXCEPT ![field] = @ + 1]

Bump_error_as_saved(st, field) ==
    IF field = "errors" THEN [st EXCEPT !.saved = @ + 1]
    ELSE [st EXCEPT ![field] = @ + 1]

Bump(st, field) == [st EXCEPT ![field] = @ + 1]

\* check_article_exists: a failed query is caught and answered False
check_article_exists(docs, source_url, queryOk) ==
    IF queryOk
    THEN \E i \in 1..Len(docs) :
            "source_url" \in DOMAIN docs[i] /\ docs[i].source_url = source_url
    ELSE FALSE

\* SELECT VALUE MAX(c.fetch_order) FROM c WHERE c.auto_fetched = true,
\* 0 when there is none or when the query failed
MaxFetchOrder(docs, queryOk) ==
    LET orders == {docs[i].fetch_order : i \in
                      {j \in 1..Len(docs) :
                          /\ "auto_fetched" \in DOMAIN docs[j]
                          /\ docs[j].auto_fetched
                          /\ "fetch_order" \in DOMAIN docs[j]}}
    IN  IF queryOk /\ orders # {}
        THEN CHOOSE m \in orders : \A o \in orders : o <= m
        ELSE 0

\* lines 110-131, given what store_content_in_blob returned
FetcherTier_blob_always(full_content, blob_url) ==
    IF should_store_in_blob(full_content, DefaultThresholdKb)
    THEN [content |-> create_content_preview(full_content, DefaultMaxLength),
          content_storage |-> "blob",
          content_blob_url |-> blob_url]
    ELSE [content |-> full_content,
          content_storage |-> "cosmos",
          content_blob_url |-> None]

FetcherTier(full_content, blob_url) ==
    IF should_store_in_blob(full_content, DefaultThresholdKb)
    THEN IF Truthy(blob_url)
         THEN [content |-> create_content_preview(full_content, DefaultMaxLength),
               content_storage |-> "blob",
               content_blob_url |-> blob_url]
         ELSE [content |-> create_content_preview(full_content, DefaultMaxLength),
               content_storage |-> "cosmos",
               content_blob_url |-> None]
    ELSE [content |-> full_content,
          content_storage |-> "cosmos",
          content_blob_url |-> None]

\* full_content = article['content'] + f"\n\n<read more>: {source_url}"
FullContent(article) == Concat(article.content, Concat(ReadMore, article.link))

\* str(uuid.uuid4()): an id no document has
FreshId(docs) ==
    LET ids == {docs[i].id : i \in 1..Len(docs)} \cup {0}
    IN  1 + (CHOOSE m \in ids : \A x \in ids : x <= m)

\* post_data (lines 142-165); the fields with a fixed value are left out
PostData(id, article, tier, tgs, fetch_order) ==
    [id |-> id,
     title |-> Slice(article.title, 500),
     content |-> tier.content,
     content_storage |-> tier.content_storage,
     content_blob_url |-> tier.content_blob_url,
     source_url |-> article.link,
     tags |-> tgs,
     created_at |-> article.created_at,
     auto_fetched |-> TRUE,
     fetch_order |-> fetch_order]

\* The result dict of fetch_and_save_dbd_news, with two facts of the call
\* (history): fetched, the number of articles scrape_dbd_news returned, and
\* connected, whether get_cosmos_container gave a container ("untried"
\* when it was not called).
Result_bare(fetched, connected, success, message, st) ==
    [op |-> "fetch_and_save_dbd_news", fetched |-> fetched,
     connected |-> connected, saved |-> st.saved, skipped |-> st.skipped,
     errors |-> st.errors]

Result(fetched, connected, success, message, st) ==
    [op |-> "fetch_and_save_dbd_news", fetched |-> fetched,
     connected |-> connected, success |-> success,
     message |-> message, stats |-> st]

\* line 110, reached only past the 'continue' of line 104: the blob write is
\* made
Uploads_before_check(exists, full_content) ==
    should_store_in_blob(full_content, DefaultThresholdKb)

Uploads(exists, full_content) ==
    ~exists /\ should_store_in_blob(full_content, DefaultThresholdKb)

\* line 138, idx being the index enumerate gives (from 0)
FetchOrder_zero_based(max_order, i) == max_order + i

FetchOrder_ignores_position(max_order, i) == max_order + 1

FetchOrder(max_order, i) == max_order + i + 1

\* container.create_item(body=post_data): the documents afterwards
create_item_replacing(docs, body) ==
    SelectSeq(docs, LAMBDA d : Get(d, "source_url") # body.source_url)
        \o <<body>>

create_item(docs, body) == Append(docs, body)

\* the names of the calls, among those made, that failed
FailedCalls(calls) == {c[1] : c \in {x \in calls : x[2] /\ ~x[3]}}

\* 1 for an external call that was made and failed
Failed(made, ok) == IF made /\ ~ok THEN 1 ELSE 0

\* fetch_and_save_dbd_news up to the loop of save_articles_to_db:
\* scrape, the tags, get_cosmos_container, the MAX(fetch_order) query
StartRun ==
    /\ pc = "idle"
    /\ ret = None
    /\ runs < MaxRuns
    /\ \E arts \in Batches, keyword \in Keywords, containerOk, queryOk \in BOOLEAN :
          LET connects == arts # <<>>
              queries == connects /\ containerOk
              failed == Failed(connects, containerOk) + Failed(queries, queryOk)
          IN  /\ connects \/ containerOk
              /\ queries \/ queryOk
              /\ faults + failed <= MaxFaults
              /\ faults' = faults + failed
              /\ began' = [again |-> arts # <<>> /\ arts = articles,
                           faults |-> faults]
              /\ last_failed' = FailedCalls({<<"container", connects, containerOk>>,
                                              <<"max_order", queries, queryOk>>})
              /\ IF arts = <<>>
                 THEN /\ ret' = Some(Result(0, "untried", FALSE,
                                            "No articles fetched", ZeroStats))
                      /\ UNCHANGED runVars
                 ELSE IF ~containerOk
                 THEN /\ ret' = Some(Result(Len(arts), "no", TRUE,
                                            "Processed", ZeroStats))
                      /\ UNCHANGED runVars
                 ELSE /\ ret' = None
                      /\ pc' = "loop"
                      /\ articles' = arts
                      /\ idx' = 0
                      /\ tags' = IF keyword # ""
                                 THEN Append(FetcherBaseTags, keyword)
                                 ELSE FetcherBaseTags
                      /\ current_max_order' = MaxFetchOrder(store, queryOk)
                      /\ stats' = ZeroStats
    /\ runs' = runs + 1
    /\ before' = Len(store)
    /\ UNCHANGED <<store, blobs, clock, updated, running, pureVars>>

\* one iteration of the loop of save_articles_to_db (lines 96-174)
ProcessArticle ==
    /\ pc = "loop"
    /\ idx < Len(articles)
    /\ \E existsOk, blobOk, createOk \in BOOLEAN :
          LET article == articles[idx + 1]
              full_content == FullContent(article)
              exists == check_article_exists(store, article.link, existsOk)
              uploads == Uploads(exists, full_content)
              written ==
                  IF uploads
                  THEN store_content_in_blob(blobs, full_content,
                                             BlobName(article.slug, clock), blobOk)
                  ELSE [url |-> None, blobs |-> blobs]
              tier == FetcherTier(full_content, written.url)
              fetch_order == FetchOrder(current_max_order, idx)
              post_data == PostData(FreshId(store), article, tier, tags, fetch_order)
              failed == Failed(TRUE, existsOk) + Failed(uploads, blobOk)
                            + Failed(~exists, createOk)
          IN  /\ uploads \/ blobOk
              /\ ~exists \/ createOk
              /\ faults + failed <= MaxFaults
              /\ faults' = faults + failed
              /\ last_failed' = FailedCalls({<<"exists", TRUE, existsOk>>,
                                              <<"blob", uploads, blobOk>>,
                                              <<"create", ~exists, createOk>>})
              /\ blobs' = written.blobs
              /\ IF exists
                 THEN /\ stats' = Bump(stats, "skipped")
                      /\ store' = store
                 ELSE IF createOk
                 THEN /\ store' = create_item(store, post_data)
                      /\ stats' = Bump(stats, "saved")
                 ELSE /\ store' = store
                      /\ stats' = Bump(stats, "errors")
    /\ idx' = idx + 1
    /\ ret' = None
    /\ UNCHANGED <<clock, runs, before, began, updated, running, pc, articles,
                   tags, current_max_order,
                   pureVars>>

\* return stats, and the result of fetch_and_save_dbd_news (lines 176, 214-221)
FinishRun ==
    /\ pc = "loop"
    /\ idx = Len(articles)
    /\ pc' = "idle"
    /\ ret' = Some(Result(Len(articles), "yes", TRUE, "Processed", stats))
    /\ last_failed' = {}
    /\ UNCHANGED <<store, blobs, clock, runs, before, began, updated, running,
                   faults, articles, idx, tags,
                   current_max_order, stats, pureVars>>

\* the caller takes the value returned
Return ==
    /\ ret # None
    /\ ret' = None
    /\ last_failed' = {}
    /\ UNCHANGED <<store, blobs, clock, runs, before, began, updated, running,
                   faults, runVars, pureVars>>

\* a second passes
Tick ==
    /\ ret = None
    /\ clock < MaxClock
    /\ clock' = clock + 1
    /\ UNCHANGED <<store, blobs, runs, before, began, updated, running, faults,
                   last_failed, ret, runVars,
                   pureVars>>

(***************************************************************************)
(* function_app.py: GET /api/posts (lines 517-595).                        *)
(***************************************************************************)
\* sort_key: post.get('created_at', '1970-01-01T00:00:00Z')
sort_key(post) == IF "created_at" \in DOMAIN post THEN post.created_at ELSE 0

\* x goes before the first item whose key is not greater than its own
InsertLatestFirst(x, q) ==
    LET later == {i \in 1..Len(q) : sort_key(q[i]) <= sort_key(x)}
        at == IF later = {} THEN Len(q) + 1
              ELSE CHOOSE i \in later : \A j \in later : i <= j
    IN  SubSeq(q, 1, at - 1) \o <<x>> \o SubSeq(q, at, Len(q))

\* items.sort(key=sort_key, reverse=True): stable, latest first
RECURSIVE SortLatestFirst(_)
SortLatestFirst(q) ==
    IF q = <<>> THEN <<>>
    ELSE InsertLatestFirst(q[1], SortLatestFirst(Tail(q)))

\* post.get('content_storage') == 'blob' and post.get('content_blob_url')
NeedsBlob(post) ==
    /\ "content_storage" \in DOMAIN post
    /\ post.content_storage = "blob"
    /\ Truthy(Get(post, "content_blob_url"))

\* lines 577-584 for one post; failing: the URLs whose read fails in transport
RehydrateOne_drop_preview(post, bs, failing) ==
    IF NeedsBlob(post)
    THEN LET full_content ==
                 get_content_from_blob(bs, post.content_blob_url[1],
                                       post.content_blob_url[1] \notin failing)
         IN  IF Truthy(full_content)
             THEN [post EXCEPT !.content = full_content[1]]
             ELSE [post EXCEPT !.content = EmptyStr]
    ELSE post

RehydrateOne(post, bs, failing) ==
    IF NeedsBlob(post)
    THEN LET full_content ==
                 get_content_from_blob(bs, post.content_blob_url[1],
                                       post.content_blob_url[1] \notin failing)
         IN  IF Truthy(full_content)
             THEN [post EXCEPT !.content = full_content[1]]
             ELSE post
    ELSE post

\* the URLs passed to get_content_from_blob, in order
RECURSIVE BlobReads(_)
BlobReads(items) ==
    IF items = <<>> THEN <<>>
    ELSE (IF NeedsBlob(items[1]) THEN <<items[1].content_blob_url[1]>> ELSE <<>>)
         \o BlobReads(Tail(items))

\* the mock data returned when Cosmos DB is not configured (lines 525-557)
MockPosts ==
    <<[id |-> -1, title |-> FromSeq(<<"S", "a", "m", "p", "l", "e", " ", "P", "o", "s", "t", " ", "1">>), content |-> FromSeq(<<"T", "h", "i", "s", " ", "i", "s", " ", "a", " ", "s", "a", "m", "p", "l", "e", " ", "p", "o", "s", "t">>), created_at |-> 0],
      [id |-> -2, title |-> FromSeq(<<"S", "a", "m", "p", "l", "e", " ", "P", "o", "s", "t", " ", "2">>), content |-> FromSeq(<<"A", "n", "o", "t", "h", "e", "r", " ", "s", "a", "m", "p", "l", "e", " ", "p", "o", "s", "t">>), created_at |-> 0],
      [id |-> -3, title |-> FromSeq(<<"T", "e", "s", "t", " ", "V", "i", "d", "e", "o", " ", "P", "o", "s", "t">>), content |-> FromSeq(<<"T", "h", "i", "s", " ", "p", "o", "s", "t", " ", "h", "a", "s", " ", "a", " ", "v", "i", "d", "e", "o", "!", " ", "C", "l", "i", "c", "k", " ", "t", "o", " ", "w", "a", "t", "c", "h", ".">>), created_at |-> 0]>>

\* the response body, with the reads of blobs the handler made (reads) and
\* those of them that failed in transport (failed)
Response(status, source, items, reads, failing) ==
    [op |-> "GET posts", status |-> status, source |-> source,
     posts |-> items, total |-> Len(items), reads |-> reads, failed |-> failing]

\* the response of the GET handler
Listing(containerOk, queryOk, failing) ==
    LET sorted == SortLatestFirst(store)
        items == [i \in 1..Len(sorted) |-> RehydrateOne(sorted[i], blobs, failing)]
    IN  IF ~containerOk THEN Response(200, "mock", MockPosts, <<>>, {})
        ELSE IF ~queryOk THEN Response(500, "error", <<>>, <<>>, {})
        ELSE Response(200, "cosmos_db", items, BlobReads(sorted), failing)

ListPosts_write_back ==
    /\ pc = "idle"
    /\ ret = None
    /\ \E containerOk, queryOk \in BOOLEAN,
          failing \in SUBSET Range(BlobReads(store)) :
          /\ (containerOk /\ queryOk) \/ failing = {}
          /\ containerOk \/ queryOk
          /\ ret' = Some(Listing(containerOk, queryOk, failing))
          /\ store' = ret'[1].posts
    /\ UNCHANGED <<blobs, clock, runs, before, began, updated, running, faults,
                   last_failed, runVars,
                   pureVars>>

ListPosts ==
    /\ pc = "idle"
    /\ ret = None
    /\ \E containerOk, queryOk \in BOOLEAN,
          failing \in SUBSET Range(BlobReads(store)) :
          /\ (containerOk /\ queryOk) \/ failing = {}
          /\ containerOk \/ queryOk
          /\ ret' = Some(Listing(containerOk, queryOk, failing))
    /\ UNCHANGED <<store, blobs, clock, runs, before, began, updated, running,
                   faults, last_failed, runVars,
                   pureVars>>

(***************************************************************************)
(* function_app.py: PUT /api/posts/{id} (update_post, lines 660-735).      *)
(* The fields author, author_avatar, video_url and thumbnail_url, which    *)
(* the listing does not read, are left out as in PostData.                 *)
(***************************************************************************)
EditedTitle == FromSeq(<<"E", "d", "i", "t", "e", "d">>)

EditedContent == FromSeq(<<"N", "e", "w", " ", "t", "e", "x", "t">>)

\* the id of the route: that of a document, or one no document has
RouteIds == {store[i].id : i \in 1..Len(store)} \cup {-9}

\* the JSON bodies: title and content (possibly missing), no tags, and
\* possibly a created_at
UpdateBodies ==
    {[title |-> t, content |-> c, tags |-> <<>>, created_at |-> d] :
        t \in {EditedTitle}, c \in {EditedContent, EmptyStr},
        d \in {None, Some(3)}}

\* lines 696-716: existing_post after the assignments
UpdatedPost(existing_post, body, now) ==
    LET edited == [f \in DOMAIN existing_post \cup {"tags", "updated_at"} |->
                      CASE f = "title" -> body.title
                        [] f = "content" -> body.content
                        [] f = "tags" -> body.tags
                        [] f = "updated_at" -> now
                        [] OTHER -> existing_post[f]]
    IN  IF /\ body.created_at # None
           /\ \/ "created_at" \notin DOMAIN existing_post
              \/ existing_post.created_at # body.created_at[1]
        THEN [f \in DOMAIN edited \cup {"created_at"} |->
                 IF f = "created_at" THEN body.created_at[1] ELSE edited[f]]
        ELSE edited

\* container.replace_item(item=existing_post, body=existing_post)
replace_item(docs, item) ==
    [i \in 1..Len(docs) |-> IF docs[i].id = item.id THEN item ELSE docs[i]]

UpdateResponse(status, post_id, item) ==
    [op |-> "PUT post", status |-> status, post_id |-> post_id, item |-> item]

UpdatePost ==
    /\ pc = "idle"
    /\ ret = None
    /\ runs < MaxRuns
    /\ \E post_id \in RouteIds, body \in UpdateBodies,
          containerOk, readOk, replaceOk \in BOOLEAN :
          LET valid == body.title # EmptyStr /\ body.content # EmptyStr
              found == {i \in 1..Len(store) : store[i].id = post_id}
              reads == valid /\ containerOk
              replaces == reads /\ readOk /\ found # {}
              item == UpdatedPost(store[CHOOSE i \in found : TRUE], body, clock)
          IN  /\ valid \/ containerOk
              /\ reads \/ readOk
              /\ replaces \/ replaceOk
              /\ IF replaces /\ replaceOk
                 THEN /\ store' = replace_item(store, item)
                      /\ updated' = updated \cup {post_id}
                      /\ ret' = Some(UpdateResponse(200, post_id, Some(item)))
                 ELSE /\ UNCHANGED <<store, updated>>
                      /\ ret' = Some(UpdateResponse(
                                    IF ~valid THEN 400
                                    ELSE IF ~containerOk THEN 503
                                    ELSE IF ~readOk THEN 500
                                    ELSE IF found = {} THEN 404
                                    ELSE 500,
                                    post_id, None))
    /\ runs' = runs + 1
    /\ UNCHANGED <<blobs, clock, faults, last_failed, before, began, running,
                   runVars, pureVars>>

(***************************************************************************)
(* news_scraper.py: fetch_news_as_posts (lines 374-468).                   *)
(***************************************************************************)
PostsBaseTags == <<"khao-prachasamphan", "DBD", "krom-phatthana-thurakit-kankha">>

\* what generate_ai_tags does when it is called: it raises, or returns tags
TaggerOutcomes ==
    {[raises |-> TRUE, tags |-> <<>>],
     [raises |-> FALSE, tags |-> <<>>],
     [raises |-> FALSE, tags |-> <<"SME", "DBD", "tax">>]}

\* for tag in ai_tags: if tag not in tags: tags.append(tag)
RECURSIVE AddNew(_, _)
AddNew(tgs, more) ==
    IF more = <<>> THEN tgs
    ELSE AddNew(IF more[1] \in Range(tgs) THEN tgs ELSE Append(tgs, more[1]),
                Tail(more))

\* lines 414-463, given what store_content_in_blob returned
PostsTier(full_content, blob_url) ==
    IF should_store_in_blob(full_content, DefaultThresholdKb) /\ Truthy(blob_url)
    THEN [content |-> create_content_preview(full_content, DefaultMaxLength),
          content_blob_url |-> blob_url,
          content_storage |-> "blob"]
    ELSE [content |-> full_content,
          content_storage |-> "cosmos"]

\* The local variable full_content when line 398 reads it in iteration i:
\* line 411 assigns it only later in the iteration, so in the first
\* iteration it is unassigned (None here; the UnboundLocalError is caught at
\* line 407) and afterwards it is the previous article's full content.
FullContentAtTagging(arts, i) ==
    IF i = 1 THEN None ELSE Some(FullContent(arts[i - 1]))

\* generate_ai_tags was called in iteration i
TaggerCalled(arts, i) == FullContentAtTagging(arts, i) # None

\* tags after lines 390-408
PostTags_raise_drops_keyword(keyword, called, ai) ==
    LET tags0 == IF keyword # "" /\ keyword \notin Range(PostsBaseTags)
                 THEN Append(PostsBaseTags, keyword)
                 ELSE PostsBaseTags
    IN  IF called /\ ai.raises THEN PostsBaseTags
        ELSE IF called THEN AddNew(tags0, ai.tags) ELSE tags0

PostTags(keyword, called, ai) ==
    LET tags0 == IF keyword # "" /\ keyword \notin Range(PostsBaseTags)
                 THEN Append(PostsBaseTags, keyword)
                 ELSE PostsBaseTags
    IN  IF called /\ ~ai.raises THEN AddNew(tags0, ai.tags) ELSE tags0

\* the blob is written in iteration i
PostUploads(arts, i) ==
    should_store_in_blob(FullContent(arts[i]), DefaultThresholdKb)

\* the post appended in iteration i (lines 410-465)
PostAt(arts, i, keyword, ai, blobOk, now) ==
    LET article == arts[i]
        full_content == FullContent(article)
        blob_url == IF PostUploads(arts, i)
                    THEN store_content_in_blob({}, full_content,
                                               BlobName(article.slug, now),
                                               blobOk).url
                    ELSE None
    IN  PostsTier(full_content, blob_url)
            @@ [title |-> article.title,
                tags |-> PostTags(keyword, TaggerCalled(arts, i), ai),
                source_url |-> article.link,
                created_at |-> article.created_at]

\* the blobs after iterations i..len(arts)
RECURSIVE PostsBlobs(_, _, _, _, _)
PostsBlobs(bs, arts, i, blobOk, now) ==
    IF i > Len(arts) THEN bs
    ELSE PostsBlobs(IF PostUploads(arts, i)
                    THEN store_content_in_blob(bs, FullContent(arts[i]),
                                               BlobName(arts[i].slug, now),
                                               blobOk[i]).blobs
                    ELSE bs,
                    arts, i + 1, blobOk, now)

\* The value returned carries, as history, the arguments generate_ai_tags
\* was called with, in order (calls), the keyword, and what the tagger did
\* in each iteration (tagger).
TaggerCalls(arts) ==
    [k \in 1..(Len(arts) - 1) |->
        [content |-> FullContentAtTagging(arts, k + 1)[1],
         title |-> arts[k + 1].title]]

RECURSIVE SumTo(_, _)
SumTo(f, n) == IF n = 0 THEN 0 ELSE f[n] + SumTo(f, n - 1)

\* What the world can do to one call: the articles scraped, the keyword, and
\* the outcome of each external call (an outcome is chosen only for the calls
\* that are made); failed counts the calls that failed.
PostsInputs ==
    {[arts |-> c[1], keyword |-> c[2], ai |-> c[3], blobOk |-> c[4],
      names |-> {"blob" : i \in {j \in 1..Len(c[1]) :
                                    PostUploads(c[1], j) /\ ~c[4][j]}}
                  \cup {"tagger" : i \in {j \in 1..Len(c[1]) :
                                    TaggerCalled(c[1], j) /\ c[3][j].raises}},
      failed |-> SumTo([i \in 1..Len(c[1]) |->
                           Failed(PostUploads(c[1], i), c[4][i])
                               + Failed(TaggerCalled(c[1], i), ~c[3][i].raises)],
                       Len(c[1]))] :
       c \in UNION {{<<arts, keyword, ai, blobOk>> :
                       keyword \in Keywords,
                       ai \in {f \in [1..Len(arts) -> TaggerOutcomes] :
                                 \A i \in 1..Len(arts) :
                                    TaggerCalled(arts, i)
                                        \/ f[i] = [raises |-> FALSE, tags |-> <<>>]},
                       blobOk \in {f \in [1..Len(arts) -> BOOLEAN] :
                                     \A i \in 1..Len(arts) :
                                        PostUploads(arts, i) \/ f[i]}} :
                    arts \in Batches}}

FetchNewsAsPosts ==
    /\ pc = "idle"
    /\ ret = None
    /\ runs < MaxRuns
    /\ \E in \in PostsInputs :
          /\ faults + in.failed <= MaxFaults
          /\ faults' = faults + in.failed
          /\ last_failed' = in.names
          /\ blobs' = PostsBlobs(blobs, in.arts, 1, in.blobOk, clock)
          /\ ret' = Some([op |-> "fetch_news_as_posts",
                          posts |-> [i \in 1..Len(in.arts) |->
                                        PostAt(in.arts, i, in.keyword, in.ai[i],
                                               in.blobOk[i], clock)],
                          calls |-> TaggerCalls(in.arts),
                          keyword |-> in.keyword,
                          tagger |-> in.ai])
    /\ runs' = runs + 1
    /\ before' = Len(store)
    /\ began' = [again |-> FALSE, faults |-> faults]
    /\ UNCHANGED <<store, clock, updated, running, runVars, pureVars>>

(***************************************************************************)
(* The system.                                                             *)
(***************************************************************************)
\* a blob-tier document whose blob lies at the top level of the container
\* (tests/test_hybrid_storage_integration.py:87-94)
LegacyBlobName == <<FromSeq(<<"a", "r", "t", "i", "c", "l", "e", "2", ".", "t", "x", "t">>)>>

LegacyPost ==
    [id |-> 0,
     title |-> FromSeq(<<"L", "a", "r", "g", "e", " ", "A", "r", "t", "i", "c", "l", "e">>),
     content |-> FromSeq(<<"P", "r", "e", "v", "i", "e", "w", " ", "c", "o", "n", "t", "e", "n", "t", ".", ".", ".">>),
     content_storage |-> "blob",
     content_blob_url |-> Some(BlobUrl(ArticlesContainer, LegacyBlobName)),
     created_at |-> 0]

LegacyBlob ==
    [container |-> ArticlesContainer, name |-> LegacyBlobName,
     content |-> FromSeq(<<"F", "u", "l", "l", " ", "l", "a", "r", "g", "e", " ", "c", "o", "n", "t", "e", "n", "t", " ", "r", "e", "t", "r", "i", "e", "v", "e", "d", " ", "f", "r", "o", "m", " ", "b", "l", "o", "b", " ", "s", "t", "o", "r", "a", "g", "e">>)]

PureIdle ==
    /\ p_content = EmptyStr
    /\ p_shape = <<0, 0>>
    /\ p_n = 0
    /\ p_tier = None
    /\ p_preview = None
    /\ p_date = <<>>
    /\ p_iso = None
    /\ p_article = None

RunIdle ==
    /\ pc = "idle"
    /\ articles = <<>>
    /\ idx = 0
    /\ tags = <<>>
    /\ current_max_order = 0
    /\ stats = ZeroStats

Init ==
    /\ \/ store = <<>> /\ blobs = {}
       \/ store = <<LegacyPost>> /\ blobs = {LegacyBlob}
    /\ clock = 0
    /\ runs = 0
    /\ faults = 0
    /\ last_failed = {}
    /\ before = Len(store)
    /\ HistoryIdle
    /\ ret = None
    /\ RunIdle
    /\ PureIdle

Next ==
    \/ StartRun
    \/ ProcessArticle
    \/ FinishRun
    \/ Return
    \/ Tick
    \/ ListPosts
    \/ FetchNewsAsPosts

Spec == Init /\ [][Next]_vars

\* The ingestion calls alone.  The loop of save_articles_to_db is a for loop
\* over a list: once begun, each iteration and the return are taken.
NextRun ==
    \/ StartRun
    \/ ProcessArticle
    \/ FinishRun
    \/ Return

\* The steps of ProcessArticle are the steps of the loop that advance idx,
\* and one is possible whenever the loop has an article left.
Iterate == pc = "loop" /\ idx < Len(articles) /\ idx' = idx + 1

SpecRun == Init /\ [][NextRun]_vars /\ WF_idx(Iterate) /\ WF_vars(FinishRun)

\* Ingestion with the posts API: the listing and update_post.
NextPosts ==
    \/ StartRun
    \/ ProcessArticle
    \/ FinishRun
    \/ Return
    \/ ListPosts
    \/ UpdatePost

SpecPosts == Init /\ [][NextPosts]_vars

(***************************************************************************)
(* A retry.  The state in which a first call of fetch_and_save_dbd_news on *)
(* an empty store has returned, after it saved one of the two articles of  *)
(* its batch and failed to insert the other; runs and faults count the     *)
(* calls and the failures from this state on.                              *)
(***************************************************************************)
TagsOf(keyword) ==
    IF keyword # "" THEN Append(FetcherBaseTags, keyword) ELSE FetcherBaseTags

\* the blobs after the blob writes of iterations 1..n, none of which failed
RECURSIVE BlobsWritten(_, _)
BlobsWritten(arts, n) ==
    IF n = 0 THEN {}
    ELSE IF should_store_in_blob(FullContent(arts[n]), DefaultThresholdKb)
         THEN store_content_in_blob(BlobsWritten(arts, n - 1),
                                    FullContent(arts[n]),
                                    BlobName(arts[n].slug, 0), TRUE).blobs
         ELSE BlobsWritten(arts, n - 1)

\* the document of the article at position k of the batch
SavedAt(arts, keyword, k) ==
    LET full_content == FullContent(arts[k])
        blob_url == IF should_store_in_blob(full_content, DefaultThresholdKb)
                    THEN Some(BlobUrl(ArticlesContainer,
                                      BlobName(arts[k].slug, 0)))
                    ELSE None
    IN  PostData(FreshId(<<>>), arts[k], FetcherTier(full_content, blob_url),
                 TagsOf(keyword), FetchOrder(0, k - 1))

InitRetry ==
    /\ \E arts \in {b \in Batches : Len(b) = 2 /\ b[1].link # b[2].link},
          keyword \in Keywords, k \in 1..2 :
          /\ store = <<SavedAt(arts, keyword, k)>>
          /\ blobs = BlobsWritten(arts, 2)
          /\ articles = arts
          /\ tags = TagsOf(keyword)
    /\ idx = 2
    /\ current_max_order = 0
    /\ stats = [saved |-> 1, skipped |-> 0, errors |-> 1]
    /\ pc = "idle"
    /\ ret = None
    /\ clock = 0
    /\ runs = 0
    /\ faults = 0
    /\ last_failed = {}
    /\ before = 0
    /\ HistoryIdle
    /\ PureIdle

SpecRetry == InitRetry /\ [][NextRun]_vars

(***************************************************************************)
(* The timer's call and the manual endpoint's call of                      *)
(* fetch_and_save_dbd_news at the same time.  Each has its own locals      *)
(* (running); the store and the blobs are shared.  A call takes a step at  *)
(* each operation on the document store: the MAX(fetch_order) query when   *)
(* it begins, the existence query of an iteration, and the insert of that  *)
(* iteration (with the blob write that precedes it, which no query reads). *)
(* pc is "idle", "loop" (before the existence query of iteration idx),     *)
(* "absent" (the query answered False; before the insert) or "done".       *)
(***************************************************************************)
\* keyword='' in scheduled_dbd_news_fetch, a query parameter in
\* manual_news_fetch
KeywordsOf(c) == IF c = "timer" THEN {""} ELSE Keywords

concVars == <<clock, runs, before, began, updated, ret, runVars, pureVars>>

\* line 138 for the record about to be inserted into docs: the value read
\* at line 91 and the index; docs plays no part
InsertOrder_sequenced(docs, max_order, i) == MaxFetchOrder(docs, TRUE) + 1

InsertOrder(docs, max_order, i) == FetchOrder(max_order, i)

\* fetch_and_save_dbd_news up to the loop, by caller c
BeginCall(c) ==
    /\ running[c].pc = "idle"
    /\ \E arts \in Batches, keyword \in KeywordsOf(c),
          containerOk, queryOk \in BOOLEAN :
          LET connects == arts # <<>>
              queries == connects /\ containerOk
              failed == Failed(connects, containerOk) + Failed(queries, queryOk)
          IN  /\ connects \/ containerOk
              /\ queries \/ queryOk
              /\ faults + failed <= MaxFaults
              /\ faults' = faults + failed
              /\ last_failed' = FailedCalls({<<"container", connects, containerOk>>,
                                              <<"max_order", queries, queryOk>>})
              /\ running' = [running EXCEPT ![c] =
                    IF arts = <<>>
                    THEN [CallIdle EXCEPT
                            !.pc = "done",
                            !.result = Some(Result(0, "untried", FALSE,
                                                   "No articles fetched", ZeroStats))]
                    ELSE IF ~containerOk
                    THEN [CallIdle EXCEPT
                            !.pc = "done",
                            !.result = Some(Result(Len(arts), "no", TRUE,
                                                   "Processed", ZeroStats))]
                    ELSE [pc |-> "loop", articles |-> arts, idx |-> 0,
                          tags |-> TagsOf(keyword),
                          current_max_order |-> MaxFetchOrder(store, queryOk),
                          stats |-> ZeroStats, result |-> None]]
    /\ UNCHANGED <<store, blobs, concVars>>

\* lines 98-104 of the iteration of caller c
CheckExists(c) ==
    /\ running[c].pc = "loop"
    /\ running[c].idx < Len(running[c].articles)
    /\ \E existsOk \in BOOLEAN :
          LET article == running[c].articles[running[c].idx + 1]
              exists == check_article_exists(store, article.link, existsOk)
          IN  /\ faults + Failed(TRUE, existsOk) <= MaxFaults
              /\ faults' = faults + Failed(TRUE, existsOk)
              /\ last_failed' = FailedCalls({<<"exists", TRUE, existsOk>>})
              /\ running' = [running EXCEPT ![c] =
                    IF exists
                    THEN [@ EXCEPT !.stats = Bump(@, "skipped"),
                                   !.idx = @ + 1]
                    ELSE [@ EXCEPT !.pc = "absent"]]
    /\ UNCHANGED <<store, blobs, concVars>>

\* lines 106-174 of the iteration of caller c
SaveArticle(c) ==
    /\ running[c].pc = "absent"
    /\ \E blobOk, createOk \in BOOLEAN :
          LET my == running[c]
              article == my.articles[my.idx + 1]
              full_content == FullContent(article)
              uploads == Uploads(FALSE, full_content)
              written ==
                  IF uploads
                  THEN store_content_in_blob(blobs, full_content,
                                             BlobName(article.slug, clock), blobOk)
                  ELSE [url |-> None, blobs |-> blobs]
              tier == FetcherTier(full_content, written.url)
              fetch_order == InsertOrder(store, my.current_max_order, my.idx)
              post_data == PostData(FreshId(store), article, tier, my.tags,
                                    fetch_order)
              failed == Failed(uploads, blobOk) + Failed(TRUE, createOk)
          IN  /\ uploads \/ blobOk
              /\ faults + failed <= MaxFaults
              /\ faults' = faults + failed
              /\ last_failed' = FailedCalls({<<"blob", uploads, blobOk>>,
                                              <<"create", TRUE, createOk>>})
              /\ blobs' = written.blobs
              /\ store' = IF createOk THEN create_item(store, post_data)
                          ELSE store
              /\ running' = [running EXCEPT ![c] =
                    [@ EXCEPT !.pc = "loop",
                              !.idx = @ + 1,
                              !.stats = Bump(@, IF createOk THEN "saved"
                                                ELSE "errors")]]
    /\ UNCHANGED concVars

\* return stats, and the result of fetch_and_save_dbd_news, by caller c
FinishCall(c) ==
    /\ running[c].pc = "loop"
    /\ running[c].idx = Len(running[c].articles)
    /\ running' = [running EXCEPT ![c] =
          [@ EXCEPT !.pc = "done",
                    !.result = Some(Result(Len(running[c].articles), "yes", TRUE,
                                           "Processed", running[c].stats))]]
    /\ last_failed' = {}
    /\ UNCHANGED <<store, blobs, faults, concVars>>

NextConcurrent ==
    \E c \in Invocations :
       \/ BeginCall(c)
       \/ CheckExists(c)
       \/ SaveArticle(c)
       \/ FinishCall(c)

SpecConcurrent == Init /\ [][NextConcurrent]_vars

(***************************************************************************)
(* Records and posts the claims speak of.                                  *)
(***************************************************************************)
\* the positions of the documents created since the call in progress began
NewDocs == {j \in 1..Len(store) : j > before}

\* the positions of the documents that were there when it began
OldDocs == {i \in 1..Len(store) : i <= before}

\* the documents save_articles_to_db has persisted
Ingested == {i \in 1..Len(store) : "auto_fetched" \in DOMAIN store[i]}

\* the posts a call of fetch_news_as_posts has returned
BuiltPosts ==
    IF ret # None /\ ret[1].op = "fetch_news_as_posts"
    THEN Range(ret[1].posts)
    ELSE {}

\* the full content of the article a record was made from
FullContentOf(r) ==
    FullContent(Article(CHOOSE d \in Slugs : Article(d).link = r.source_url))

TierConsistent(r) ==
    (Get(r, "content_storage") = "blob") <=> Truthy(Get(r, "content_blob_url"))

\* the response of a GET that read the container
Listed == ret # None /\ ret[1].op = "GET posts" /\ ret[1].source = "cosmos_db"

(***************************************************************************)
(* C1.  Idempotent ingestion: no document created by an ingestion run has  *)
(* the source_url of a document that an earlier run had persisted (such an *)
(* item is skipped), so the store never holds two records of one           *)
(* source_url coming from two runs.                                        *)
(***************************************************************************)
IdempotentIngestion ==
    \A i \in OldDocs \cap Ingested, j \in NewDocs \cap Ingested :
        store[i].source_url # store[j].source_url

(***************************************************************************)
(* C2.  Tier consistency: every document of the store and every post built *)
(* by fetch_news_as_posts has content_storage = 'blob' exactly when its    *)
(* content_blob_url is present and non-empty.                              *)
(***************************************************************************)
TierConsistency ==
    /\ \A i \in 1..Len(store) : TierConsistent(store[i])
    /\ \A post \in BuiltPosts : TierConsistent(post)

\* ingestion has persisted a blob-tier record, and fetch_news_as_posts has
\* built one post whose blob write failed and one that needed no blob
TierAllOutcomes ==
    /\ \E i \in Ingested : store[i].content_storage = "blob"
    /\ \E post \in BuiltPosts :
          /\ should_store_in_blob(FullContentOf(post), DefaultThresholdKb)
          /\ post.content_storage = "cosmos"
    /\ \E post \in BuiltPosts :
          ~should_store_in_blob(FullContentOf(post), DefaultThresholdKb)

(***************************************************************************)
(* C3.  Monotonic fetch_order: every document created by an ingestion run  *)
(* has a fetch_order strictly greater than that of every document an       *)
(* earlier run persisted.                                                  *)
(***************************************************************************)
MonotonicFetchOrder ==
    \A i \in OldDocs \cap Ingested, j \in NewDocs \cap Ingested :
        store[j].fetch_order > store[i].fetch_order

(***************************************************************************)
(* C4.  Graceful blob-write failure: a record or post of the inline tier   *)
(* ('cosmos') holds the full content of its article, also when the content *)
(* is over the threshold and the blob write failed.                        *)
(***************************************************************************)
InlineHoldsFullContent ==
    /\ \A i \in Ingested :
          store[i].content_storage = "cosmos"
              => store[i].content = FullContentOf(store[i])
    /\ \A post \in BuiltPosts :
          post.content_storage = "cosmos"
              => post.content = FullContentOf(post)

(***************************************************************************)
(* C5.  Rehydration on list: the response of GET posts holds every         *)
(* document exactly once and total is their number; a returned post is its *)
(* document with the content replaced by the blob's text when the document *)
(* is blob-tier with a URL and the read succeeds, and is the document      *)
(* itself (the stored preview) when the read fails; a blob is read only    *)
(* for blob-tier documents; a failed read leaves the other posts as they   *)
(* would be without it.                                                    *)
(***************************************************************************)
\* the text a successful read of url gives: the blob that lies in container
\* url[-2] under the name url[-1]
BlobTextAt(url) ==
    {b.content : b \in {x \in blobs : /\ Len(url) >= 2
                                      /\ x.container = url[Len(url) - 1]
                                      /\ x.name = <<url[Len(url)]>>
                                      /\ x.content # EmptyStr}}

IsBlobTier(doc) ==
    Get(doc, "content_storage") = "blob" /\ Truthy(Get(doc, "content_blob_url"))

RehydrationOnList ==
    Listed =>
        LET posts == ret[1].posts
        IN  /\ ret[1].status = 200
            /\ ret[1].total = Len(store)
            /\ Len(posts) = Len(store)
            /\ \A k \in 1..Len(store) :
                  Cardinality({i \in 1..Len(posts) : posts[i].id = store[k].id}) = 1
            /\ \A i \in 1..Len(posts) :
                  \E k \in 1..Len(store) :
                     LET doc == store[k]
                         url == doc.content_blob_url[1]
                     IN  /\ posts[i].id = doc.id
                         /\ [posts[i] EXCEPT !.content = doc.content] = doc
                         /\ IF ~IsBlobTier(doc)
                            THEN /\ posts[i] = doc
                                 /\ \A r \in Range(ret[1].reads) :
                                       Truthy(Get(doc, "content_blob_url"))
                                           => r # url
                            ELSE /\ url \in Range(ret[1].reads)
                                 /\ IF url \in ret[1].failed \/ BlobTextAt(url) = {}
                                    THEN posts[i].content = doc.content
                                    ELSE posts[i].content \in BlobTextAt(url)

\* a response with a post whose blob was read, a blob-tier post whose read
\* failed in transport and kept its preview, and an inline post
ListedAllOutcomes ==
    /\ Listed
    /\ \E i \in 1..Len(ret[1].posts) :
          /\ IsBlobTier(ret[1].posts[i])
          /\ ret[1].posts[i].content = LegacyBlob.content
    /\ \E k \in 1..Len(store) :
          /\ IsBlobTier(store[k])
          /\ store[k].content_blob_url[1] \in ret[1].failed
          /\ store[k] \in Range(ret[1].posts)
    /\ \E k \in 1..Len(store) :
          /\ ~IsBlobTier(store[k])
          /\ store[k] \in Range(ret[1].posts)

(***************************************************************************)
(* C6.  Blob round trip: the content_blob_url of every blob-tier record    *)
(* persisted by ingestion resolves, through get_content_from_blob, to the  *)
(* full content that was written for it.                                   *)
(***************************************************************************)
BlobRoundTrip ==
    \A i \in Ingested :
        IsBlobTier(store[i]) =>
            get_content_from_blob(blobs, store[i].content_blob_url[1], TRUE)
                = Some(FullContentOf(store[i]))

(***************************************************************************)
(* C7.  Rehydration is pure post-processing: a GET of the posts writes     *)
(* neither the document store nor the blob store.                          *)
(***************************************************************************)
ListingWritesNothing ==
    [][(ret = None /\ ret' # None /\ ret'[1].op = "GET posts")
          => (store' = store /\ blobs' = blobs)]_vars

\* a GET has answered with the full text of a blob while the document
\* still holds its preview, next to a post whose read failed
ListedRehydrated ==
    /\ Listed
    /\ ret[1].failed # {}
    /\ \E i \in 1..Len(ret[1].posts), k \in 1..Len(store) :
          /\ ret[1].posts[i].id = store[k].id
          /\ ret[1].posts[i].content # store[k].content
          /\ store[k].content = LegacyPost.content

(***************************************************************************)
(* Arguments of the pure functions.                                        *)
(***************************************************************************)
PreviewChars == {"a", " "}

\* every canonical string of at most k runs over PreviewChars, each run of
\* 1..MaxRunLen characters
RECURSIVE StringsOfRuns(_)
StringsOfRuns(k) ==
    IF k = 0 THEN {<<>>}
    ELSE LET shorter == StringsOfRuns(k - 1)
         IN  shorter \cup
             {Append(s, [ch |-> c, n |-> m]) :
                 <<s, c, m>> \in
                    {t \in shorter \X PreviewChars \X (1..MaxRunLen) :
                        /\ Len(t[1]) = k - 1
                        /\ (t[1] # <<>> => t[1][Len(t[1])].ch # t[2])}}

PreviewInputs == StringsOfRuns(MaxStrRuns)

\* contents of a ASCII letters followed by t Thai letters, whose UTF-8 size
\* a + 3t lies within MaxDelta bytes of the 5 KiB threshold
MaxDelta == 2

ThaiCounts == {0, 1, 1700}

TierShapes ==
    {<<a, t>> \in (0..(5120 + MaxDelta)) \X ThaiCounts :
        /\ a + 3 * t >= 5120 - MaxDelta
        /\ a + 3 * t <= 5120 + MaxDelta}

TierInput(shape) == Concat(Rep("a", shape[1]), Rep("U+0E01", shape[2]))

(***************************************************************************)
(* The pure functions on their own.                                        *)
(***************************************************************************)
InitPure ==
    /\ \/ /\ p_content \in PreviewInputs
          /\ p_shape = <<Len(ToSeq(p_content)), 0>>
       \/ \E shape \in TierShapes :
             /\ p_content = TierInput(shape)
             /\ p_shape = shape
    /\ p_n \in 0..MaxN
    /\ p_tier = None
    /\ p_preview = None
    /\ p_date = <<>>
    /\ p_iso = None
    /\ p_article = None
    /\ store = <<>>
    /\ blobs = {}
    /\ clock = 0
    /\ runs = 0
    /\ faults = 0
    /\ last_failed = {}
    /\ before = 0
    /\ HistoryIdle
    /\ ret = None
    /\ RunIdle

\* should_store_in_blob(content)
DecideTier ==
    /\ p_tier = None
    /\ p_tier' = Some(should_store_in_blob(p_content, DefaultThresholdKb))
    /\ UNCHANGED <<p_content, p_shape, p_n, p_preview, dateVars, sysVars, runVars>>

\* create_content_preview(content, max_length)
MakePreview ==
    /\ p_preview = None
    /\ p_preview' = Some(create_content_preview(p_content, p_n))
    /\ UNCHANGED <<p_content, p_shape, p_n, p_tier, dateVars, sysVars, runVars>>

NextPure == DecideTier \/ MakePreview

SpecPure == InitPure /\ [][NextPure]_vars

(***************************************************************************)
(* parse_thai_date on its own.                                             *)
(***************************************************************************)
MaxTokens == 3

DateNums == {22, 29, 31, 2025, 2500, 2567, 2568}

DateWords == {"tulakhom", "kumphaphan", "October", "Tuesday"}

\* a token: a numeral, a word or a comma, or a numeral or word and a comma
DateTokens ==
    LET atoms == {Num(n) : n \in DateNums} \cup {Word(w) : w \in DateWords}
    IN  {<<a>> : a \in atoms \cup {Comma}} \cup {<<a, Comma>> : a \in atoms}

\* the tokens of q, each followed by one space but the last
RECURSIVE Joined(_)
Joined(q) ==
    IF q = <<>> THEN <<>>
    ELSE IF Len(q) = 1 THEN q[1]
    ELSE q[1] \o <<Sp>> \o Joined(Tail(q))

\* every string of at most MaxTokens tokens, with or without leading space
DateInputs ==
    {(IF lead THEN <<Sp>> ELSE <<>>) \o Joined(q) :
        q \in SeqsUpTo(DateTokens, MaxTokens), lead \in BOOLEAN}

\* the item of the API result whose date is the string date
DateItem(date) ==
    [title |-> Concat(TitleStem, SlugStr("1")), slug |-> SlugStr("1"), date |-> date]

InitDate ==
    /\ p_date \in DateInputs
    /\ p_iso = None
    /\ p_article = None
    /\ p_content = EmptyStr
    /\ p_shape = <<0, 0>>
    /\ p_n = 0
    /\ p_tier = None
    /\ p_preview = None
    /\ store = <<>>
    /\ blobs = {}
    /\ clock = MaxClock
    /\ runs = 0
    /\ faults = 0
    /\ last_failed = {}
    /\ before = 0
    /\ HistoryIdle
    /\ ret = None
    /\ RunIdle

\* scrape_dbd_news extracts the item: iso_date = parse_thai_date(date)
\* (line 277), then the article (lines 279-290)
ExtractArticle ==
    /\ p_article = None
    /\ p_iso' = Some(parse_thai_date(p_date, clock))
    /\ p_article' = Some(ExtractItem(DateItem(p_date), clock))
    /\ UNCHANGED <<p_date, previewVars, sysVars, runVars>>

NextDate == ExtractArticle

SpecDate == InitDate /\ [][NextDate]_vars

(***************************************************************************)
(* C8.  should_store_in_blob(content), default threshold, is true exactly  *)
(* when the UTF-8 size of content is at least 5120 bytes, whatever the     *)
(* number of characters.                                                   *)
(***************************************************************************)
TierByBytes ==
    p_tier # None =>
        (p_tier[1] <=> p_shape[1] + 3 * p_shape[2] >= 5120)

\* 5120 bytes in fewer than 5120 characters has been classified blob, and
\* 5119 bytes inline
TierBoundaryReached ==
    /\ p_tier = Some(TRUE)
    /\ p_shape = <<20, 1700>>

(***************************************************************************)
(* C9.  len(create_content_preview(content, N)) <= N + 3; the result is    *)
(* content itself when len(content) <= N, and otherwise a prefix of        *)
(* content of at most N characters followed by "...".                      *)
(***************************************************************************)
IsPrefixSeq(p, s) == Len(p) <= Len(s) /\ SubSeq(s, 1, Len(p)) = p

PreviewBound ==
    p_preview # None =>
        LET c == ToSeq(p_content)
            r == ToSeq(p_preview[1])
        IN  /\ Len(r) <= p_n + 3
            /\ Len(c) <= p_n => r = c
            /\ Len(c) > p_n =>
                  /\ Len(r) >= 3
                  /\ SubSeq(r, Len(r) - 2, Len(r)) = <<".", ".", ".">>
                  /\ Len(r) - 3 <= p_n
                  /\ IsPrefixSeq(SubSeq(r, 1, Len(r) - 3), c)

\* a content longer than N has been truncated
PreviewTruncated ==
    /\ p_preview # None
    /\ p_n > 0
    /\ Len(ToSeq(p_content)) > p_n
    /\ Len(ToSeq(p_preview[1])) = p_n + 3

(***************************************************************************)
(* C10.  When len(content) > N and the last space among the first N        *)
(* characters is at an index greater than 0.8 * N, the body of the preview *)
(* is content[:that index]; when no space lies there, it is content[:N].   *)
(***************************************************************************)
\* indices (0-based) of the spaces among the first n characters of c
SpacesIn(c, n) == {i \in 0..(n - 1) : i < Len(c) /\ c[i + 1] = " "}

LateSpaces(c, n) == {i \in SpacesIn(c, n) : 5 * i > 4 * n}

MaxOf(S) == CHOOSE x \in S : \A y \in S : y <= x

PreviewWordBoundary ==
    (p_preview # None /\ Len(ToSeq(p_content)) > p_n) =>
        LET c == ToSeq(p_content)
            r == ToSeq(p_preview[1])
            body == SubSeq(r, 1, Len(r) - 3)
        IN  IF LateSpaces(c, p_n) # {}
            THEN body = SubSeq(c, 1, MaxOf(LateSpaces(c, p_n)))
            ELSE body = SubSeq(c, 1, p_n)

\* a preview has been cut at a space in the last fifth of the window
PreviewCutAtSpace ==
    /\ p_preview # None
    /\ Len(ToSeq(p_content)) > p_n
    /\ LateSpaces(ToSeq(p_content), p_n) # {}
    /\ Len(ToSeq(p_preview[1])) < p_n + 3

(***************************************************************************)
(* C11.  A string '<day> <Thai month name> <Buddhist-era year>' that       *)
(* denotes a valid date is parsed to the same day and month with the year  *)
(* reduced by 543; with an English month name the year is unshifted.       *)
(***************************************************************************)
\* the string '<day> <month name> <year>'
DayMonthYear(d, w, y) == <<Num(d), Sp, Word(w), Sp, Num(y)>>

\* what is returned for '<d> <w> <y>' with a valid date, for the Thai-month
\* strings whose year is in years
DayMonthYearParsed(years) ==
    p_iso # None =>
        \A d \in DateNums, y \in DateNums, w \in DateWords :
            p_date = DayMonthYear(d, w, y) =>
                /\ (/\ w \in Range(ThaiMonthNames)
                    /\ y \in years
                    /\ ValidDate(y - 543, MonthOf(ThaiMonthNames, w), d))
                       => p_iso = Some(Some(IsoZ(y - 543,
                                                 MonthOf(ThaiMonthNames, w), d)))
                /\ (/\ w \in Range(EnglishMonthNames)
                    /\ ValidDate(y, MonthOf(EnglishMonthNames, w), d))
                       => p_iso = Some(Some(IsoZ(y, MonthOf(EnglishMonthNames, w), d)))

\* C11 as stated: every Buddhist-era year
BuddhistDateShifted == DayMonthYearParsed(DateNums)

\* C11 amended: the Buddhist-era years greater than 2500
BuddhistDateShiftedAbove2500 == DayMonthYearParsed({y \in DateNums : y > 2500})

\* 29 February of the Buddhist-era leap year 2567 has been parsed to
\* 2024-02-29
LeapDayShifted ==
    /\ p_date = DayMonthYear(29, "kumphaphan", 2567)
    /\ p_iso = Some(Some(IsoZ(2024, 2, 29)))

(***************************************************************************)
(* C12.  A string 'Month Day, Year' with an English month name that        *)
(* denotes a valid date is parsed to that date, not to the current time.   *)
(***************************************************************************)
MonthDayYear(w, d, y) == <<Word(w), Sp, Num(d), Comma, Sp, Num(y)>>

EnglishTextualDate ==
    p_iso # None =>
        \A d \in DateNums, y \in DateNums, w \in DateWords :
            (/\ p_date = MonthDayYear(w, d, y)
             /\ w \in Range(EnglishMonthNames)
             /\ ValidDate(y, MonthOf(EnglishMonthNames, w), d))
                => p_iso = Some(Some(IsoZ(y, MonthOf(EnglishMonthNames, w), d)))

(***************************************************************************)
(* C13.  parse_thai_date raises for no input, and returns the current time *)
(* for the empty string, for a string that has not three parts, for an     *)
(* unknown month name, a non-numeric day or year and an impossible date;   *)
(* the item is in the extractor's result whatever its date.                *)
(***************************************************************************)
IsNumeral(token) == Len(token) = 1 /\ token[1].k = "num"

IsMonthName(token) ==
    /\ Len(token) = 1
    /\ token[1].k = "word"
    /\ token[1].w \in Range(ThaiMonthNames) \cup Range(EnglishMonthNames)

\* the date a three-part string of numeral, month name, numeral denotes is
\* not a date of the calendar
ImpossibleDate(parts) ==
    LET w == parts[2][1].w
        thai == w \in Range(ThaiMonthNames)
        m == IF thai THEN MonthOf(ThaiMonthNames, w)
             ELSE MonthOf(EnglishMonthNames, w)
        y == IF thai /\ parts[3][1].n > 2500
             THEN parts[3][1].n - 543 ELSE parts[3][1].n
    IN  ~ValidDate(y, m, parts[1][1].n)

Unparseable(date) ==
    LET parts == Split(date)
    IN  \/ date = <<>>
        \/ Len(parts) # 3
        \/ /\ Len(parts) = 3
           /\ \/ ~IsMonthName(parts[2])
              \/ ~IsNumeral(parts[1])
              \/ ~IsNumeral(parts[3])
              \/ /\ IsMonthName(parts[2])
                 /\ IsNumeral(parts[1])
                 /\ IsNumeral(parts[3])
                 /\ ImpossibleDate(parts)

DateParsingNeverFails ==
    p_iso # None =>
        /\ p_iso[1] # None
        /\ Unparseable(p_date) => p_iso[1] = Some(IsoNow(clock))
        /\ p_article[1] # None
        /\ p_article[1][1].date = p_date
        /\ p_article[1][1].created_at = p_iso[1][1]

\* day 31 of February has been given the current time, and its item kept
ImpossibleDateFellBack ==
    /\ p_date = DayMonthYear(31, "kumphaphan", 2568)
    /\ p_iso = Some(Some(IsoNow(clock)))
    /\ p_article # None
    /\ p_article[1] # None
    /\ p_article[1][1].created_at = IsoNow(clock)

(***************************************************************************)
(* Results of fetch_and_save_dbd_news.                                     *)
(***************************************************************************)
\* a call of fetch_and_save_dbd_news has returned
RunReturned == ret # None /\ ret[1].op = "fetch_and_save_dbd_news"

Total(st) == st.saved + st.skipped + st.errors

\* a step of the loop of save_articles_to_db in which the call named failed
IterationFailing(call) ==
    /\ pc = "loop"
    /\ idx' = idx + 1
    /\ call \in last_failed'

(***************************************************************************)
(* C14.  Empty fetch: when the extractor returns no article, the call ends *)
(* with a result that is not a failure, with saved = skipped = errors = 0, *)
(* and nothing has been written to the store or to the blobs.              *)
(***************************************************************************)
EmptyFetchIsNoFailure ==
    (RunReturned /\ ret[1].fetched = 0) =>
        /\ ret[1].success
        /\ ret[1].stats = ZeroStats
        /\ Len(store) = before

(***************************************************************************)
(* C15.  Store unavailable: when get_cosmos_container gives no container   *)
(* and the extractor returned at least one article, the result has         *)
(* success = false and saved = skipped = errors = 0; and success = false   *)
(* is returned in that case only.                                          *)
(***************************************************************************)
StoreUnavailableFails ==
    RunReturned =>
        /\ (ret[1].fetched > 0 /\ ret[1].connected = "no")
              => (~ret[1].success /\ ret[1].stats = ZeroStats)
        /\ ~ret[1].success
              => (ret[1].fetched > 0 /\ ret[1].connected = "no")

(***************************************************************************)
(* C16.  Counter accounting: after i iterations of a run with the store    *)
(* available saved + skipped + errors = i, so the result of a completed    *)
(* run has saved + skipped + errors = the number of articles of the batch; *)
(* and saved is the number of documents the run has inserted.              *)
(***************************************************************************)
CounterAccounting ==
    /\ pc = "loop" =>
          /\ Total(stats) = idx
          /\ stats.saved = Len(store) - before
    /\ (RunReturned /\ ret[1].connected = "yes") =>
          /\ Total(ret[1].stats) = ret[1].fetched
          /\ ret[1].stats.saved = Len(store) - before

\* a completed run of two articles has saved one and skipped the other
SavedAndSkipped ==
    /\ RunReturned
    /\ ret[1].fetched = 2
    /\ ret[1].stats = [saved |-> 1, skipped |-> 1, errors |-> 0]

DedupFailureIsError ==
    [][IterationFailing("exists") =>
          /\ stats'.errors = stats.errors + 1
          /\ store' = store
          /\ pc' = "loop"]_vars

(***************************************************************************)
(* C19.  Structured result: whatever external calls fail, a call of        *)
(* fetch_and_save_dbd_news that has begun its loop returns, and every      *)
(* value returned carries success, a message and the three counters.       *)
(***************************************************************************)
StructuredResult ==
    RunReturned =>
        /\ {"success", "message", "stats"} \subseteq DOMAIN ret[1]
        /\ ret[1].success \in BOOLEAN
        /\ DOMAIN ret[1].stats = {"saved", "skipped", "errors"}
        /\ \A f \in DOMAIN ret[1].stats : ret[1].stats[f] \in Nat

BaseAndKeyword(base, keyword) ==
    IF keyword # "" /\ keyword \notin Range(base) THEN base \o <<keyword>>
    ELSE base

TaggingBestEffort ==
    /\ (ret # None /\ ret[1].op = "fetch_news_as_posts") =>
          LET r == ret[1]
              base == BaseAndKeyword(PostsBaseTags, r.keyword)
          IN  /\ Len(r.posts) = Len(r.tagger)
              /\ \A i \in 1..Len(r.posts) :
                    /\ (r.tagger[i].raises \/ r.tagger[i].tags = <<>>)
                          => r.posts[i].tags = base
                    /\ SubSeq(r.posts[i].tags, 1, Len(base)) = base
                    /\ Range(r.posts[i].tags) \subseteq
                          Range(base) \cup Range(r.tagger[i].tags)
    /\ \A j \in NewDocs \cap Ingested :
          \E keyword \in Keywords :
             store[j].tags = IF keyword # "" THEN FetcherBaseTags \o <<keyword>>
                             ELSE FetcherBaseTags

\* with a keyword given, the tagger raised for the second of two articles
TaggerRaisedForSecond ==
    /\ ret # None
    /\ ret[1].op = "fetch_news_as_posts"
    /\ ret[1].keyword = "SME"
    /\ Len(ret[1].posts) = 2
    /\ ret[1].tagger[2].raises
    /\ ret[1].posts[2].tags = PostsBaseTags \o <<"SME">>

(***************************************************************************)
(* C21.  Tags are an ordered set: the tags of every post built by          *)
(* fetch_news_as_posts and of every record persisted by                    *)
(* fetch_and_save_dbd_news hold no string twice, and begin with the base   *)
(* tags, followed by the keyword when one was given that is not a base tag.*)
(***************************************************************************)
NoDuplicates(q) == \A i, j \in 1..Len(q) : i # j => q[i] # q[j]

TagsAreOrderedSet ==
    /\ (ret # None /\ ret[1].op = "fetch_news_as_posts") =>
          LET base == BaseAndKeyword(PostsBaseTags, ret[1].keyword)
          IN  \A i \in 1..Len(ret[1].posts) :
                 /\ NoDuplicates(ret[1].posts[i].tags)
                 /\ SubSeq(ret[1].posts[i].tags, 1, Len(base)) = base
    /\ \A j \in Ingested :
          /\ NoDuplicates(store[j].tags)
          /\ \E keyword \in Keywords :
                store[j].tags = BaseAndKeyword(FetcherBaseTags, keyword)

(***************************************************************************)
(* C22.  Idempotence under retry: when a call of fetch_and_save_dbd_news   *)
(* that was given the batch of the call before it returns, it has inserted *)
(* no record with the source_url of a record persisted before it began;    *)
(* the articles of such records are counted skipped and the others were    *)
(* attempted; and if no external call failed during it, every article of   *)
(* the batch is persisted exactly once.                                    *)
(***************************************************************************)
RetryReturned == RunReturned /\ ret[1].connected = "yes" /\ began.again

RetryIsIdempotent ==
    RetryReturned =>
        LET old == {store[i].source_url : i \in OldDocs \cap Ingested}
            done == {k \in 1..Len(articles) : articles[k].link \in old}
            todo == {articles[k].link : k \in 1..Len(articles)} \ old
        IN  /\ \A j \in NewDocs : store[j].source_url \notin old
            /\ ret[1].stats.skipped >= Cardinality(done)
            /\ ret[1].stats.saved + ret[1].stats.errors >= Cardinality(todo)
            /\ faults = began.faults =>
                  \A k \in 1..Len(articles) :
                     Cardinality({i \in Ingested :
                                    store[i].source_url = articles[k].link}) = 1

\* the state from which the retry is made is one the calls reach
PartialFailureReached ==
    /\ pc = "idle" /\ ret = None /\ runs = 1 /\ faults = 1
    /\ stats = [saved |-> 1, skipped |-> 0, errors |-> 1]
    /\ \E k \in 1..2 :
          /\ store = <<SavedAt(articles, "SME", k)>>
          /\ blobs = BlobsWritten(articles, 2)
          /\ tags = TagsOf("SME")

(***************************************************************************)
(* C23.  Ingestion only creates: every step of a call of                   *)
(* fetch_and_save_dbd_news leaves each document of the store as it was, at *)
(* its place (so its id, source_url, created_at and fetch_order are kept), *)
(* and removes none: the store afterwards is the store before, possibly    *)
(* with documents added at its end.                                        *)
(***************************************************************************)
IngestionStep ==
    \/ pc = "loop"
    \/ pc' = "loop"
    \/ ret = None /\ ret' # None /\ ret'[1].op = "fetch_and_save_dbd_news"

IngestionOnlyCreates ==
    [][IngestionStep =>
          /\ Len(store') >= Len(store)
          /\ SubSeq(store', 1, Len(store)) = store]_vars

\* a run has fetched again an article persisted by an earlier run, next to
\* a new one which it saved; the earlier record still has the publish date
\* of its article
RefetchedRecordKept ==
    /\ RunReturned
    /\ ret[1].stats.saved = 1
    /\ Len(store) = before + 1
    /\ \E i \in OldDocs \cap Ingested, k \in 1..Len(articles) :
          /\ store[i].source_url = articles[k].link
          /\ store[i].created_at = articles[k].created_at
          /\ store[i].fetch_order < store[Len(store)].fetch_order

(***************************************************************************)
(* C24.  fetch_order race: when the timer's call and the manual call run   *)
(* at the same time, the fetch_order of a record a call inserts is the     *)
(* value the call read when it began plus the position of the article,     *)
(* whatever the other call has inserted since: the value read is never     *)
(* read again, and the insert is made without regard to the fetch_order    *)
(* values in the store.                                                    *)
(***************************************************************************)
\* caller c inserts a document in this step
Inserts(c) ==
    /\ running[c].pc = "absent"
    /\ running'[c].pc = "loop"
    /\ Len(store') = Len(store) + 1

FetchOrderUnguarded ==
    [][\A c \in Invocations :
          /\ (running[c].pc \in {"loop", "absent"})
                => running'[c].current_max_order = running[c].current_max_order
          /\ Inserts(c) =>
                store'[Len(store')].fetch_order
                   = running[c].current_max_order + running[c].idx + 1]_vars

\* no external call has failed, both calls have returned, each has saved
\* records, and two records of different articles have one fetch_order
OverlappingFetchOrder ==
    /\ faults = 0
    /\ \A c \in Invocations :
          /\ running[c].pc = "done"
          /\ running[c].stats.saved > 0
          /\ running[c].current_max_order = 0
    /\ \E i, j \in Ingested :
          /\ store[i].source_url # store[j].source_url
          /\ store[i].fetch_order = store[j].fetch_order

(***************************************************************************)
(* C25.  Tagger input: a call of fetch_news_as_posts calls the tagger once *)
(* for each article of the batch, in order, with the title and the full    *)
(* content of that article.                                                *)
(***************************************************************************)
TaggerGetsOwnContent ==
    (ret # None /\ ret[1].op = "fetch_news_as_posts") =>
        /\ Len(ret[1].calls) = Len(ret[1].posts)
        /\ \A i \in 1..Len(ret[1].posts) :
              /\ i <= Len(ret[1].calls)
              /\ ret[1].calls[i].title = ret[1].posts[i].title
              /\ ret[1].calls[i].content = FullContentOf(ret[1].posts[i])

(***************************************************************************)
(* C26.  fetch_order formula.                                              *)
(***************************************************************************)
\* the greatest fetch_order persisted before the run in progress began
MaxBefore == MaxFetchOrder(SubSeq(store, 1, before), TRUE)

\* the iteration in progress inserts a document
IterationInserting ==
    /\ pc = "loop"
    /\ idx' = idx + 1
    /\ Len(store') = Len(store) + 1

\* C26 as claimed: the record inserted for the k-th article of the batch
\* that passed the dedup check (skipped duplicates not counted) has
\* fetch_order = the maximum persisted before the run + k.  Stated for the
\* runs whose MAX query gave that maximum.
FetchOrderByNewPosition ==
    [][(IterationInserting /\ current_max_order = MaxBefore) =>
          store'[Len(store')].fetch_order
             = MaxBefore + (idx + 1 - stats.skipped)]_vars

\* C26 as amended: the fetch_order of a record a run has inserted is the
\* base value the run read when it began (the greatest fetch_order among
\* the auto-fetched records, or 0 when there is none or the query failed)
\* plus the 1-based position of its article in the batch, skipped
\* duplicates counted; the records of one run have different values, all
\* within base+1 .. base+n for a batch of n articles.
FetchOrderByBatchPosition ==
    /\ pc = "loop" => current_max_order \in {MaxBefore, 0}
    /\ \A j \in NewDocs \cap Ingested :
          /\ \E n \in 1..idx :
                /\ articles[n].link = store[j].source_url
                /\ store[j].fetch_order = current_max_order + n
          /\ \A i \in NewDocs \cap Ingested :
                i # j => store[i].fetch_order # store[j].fetch_order

\* a run that read a maximum above 0 has skipped its first article and
\* saved its second, which has the base value plus 2
GapAfterSkippedDuplicate ==
    /\ RunReturned
    /\ ret[1].stats = [saved |-> 1, skipped |-> 1, errors |-> 0]
    /\ Len(articles) = 2
    /\ Len(store) = before + 1
    /\ current_max_order = MaxBefore
    /\ current_max_order > 0
    /\ store[Len(store)].source_url = articles[2].link
    /\ store[Len(store)].fetch_order = current_max_order + 2

(***************************************************************************)
(* C27.  Order within a batch: the loop takes the articles one at a time   *)
(* in the order of the batch (an iteration handles the article at index    *)
(* idx and moves to idx + 1, and a document it inserts is that article's); *)
(* of two records one run has inserted, the one inserted first is of an    *)
(* earlier position of the batch and has the strictly smaller fetch_order. *)
(***************************************************************************)
InsertedInBatchOrder ==
    \A i, j \in NewDocs \cap Ingested :
        i < j =>
            /\ store[i].fetch_order < store[j].fetch_order
            /\ \E m, n \in 1..idx :
                  /\ m < n
                  /\ articles[m].link = store[i].source_url
                  /\ articles[n].link = store[j].source_url

OrderWithinBatch ==
    /\ []InsertedInBatchOrder
    /\ [][(pc = "loop" /\ idx' # idx) =>
             /\ idx' = idx + 1
             /\ articles' = articles
             /\ Len(store') > Len(store) =>
                   /\ Len(store') = Len(store) + 1
                   /\ store'[Len(store')].source_url = articles[idx + 1].link]_vars

\* a run has saved both articles of its batch
BothSavedInOrder ==
    /\ RunReturned
    /\ ret[1].stats.saved = 2
    /\ Len(store) = before + 2
    /\ articles[1].link # articles[2].link
    /\ store[before + 1].source_url = articles[1].link
    /\ store[before + 2].source_url = articles[2].link
    /\ store[before + 1].fetch_order + 1 = store[before + 2].fetch_order

(***************************************************************************)
(* C28.  Dedup precedes storage: in an iteration whose existence query     *)
(* answers that the article's source_url is persisted, no blob is written  *)
(* and no document is inserted (the blobs and the store are unchanged),    *)
(* skipped grows by one and the other counters are unchanged.              *)
(***************************************************************************)
\* the iteration in progress finds its article persisted
IterationFindingDuplicate ==
    /\ pc = "loop"
    /\ idx' = idx + 1
    /\ "exists" \notin last_failed'
    /\ \E i \in 1..Len(store) :
          Get(store[i], "source_url") = articles[idx + 1].link

DedupShortCircuits ==
    [][IterationFindingDuplicate =>
          /\ store' = store
          /\ blobs' = blobs
          /\ stats' = [stats EXCEPT !.skipped = @ + 1]]_vars

\* an article over the blob threshold, persisted in an earlier second, has
\* been fetched again and skipped, and no blob was written for it
LargeDuplicateSkipped ==
    /\ RunReturned
    /\ clock = 1
    /\ ret[1].fetched = 1
    /\ ret[1].stats = [saved |-> 0, skipped |-> 1, errors |-> 0]
    /\ should_store_in_blob(FullContent(articles[1]), DefaultThresholdKb)
    /\ \E i \in OldDocs \cap Ingested :
          /\ store[i].source_url = articles[1].link
          /\ store[i].content_storage = "blob"
    /\ \A b \in blobs : b.name # BlobName(articles[1].slug, 1)

(***************************************************************************)
(* C29.  Duplicate race: two records with one source_url can be persisted  *)
(* when the timer's call and the manual call run at the same time, and     *)
(* cannot when the calls are made one after the other.                     *)
(***************************************************************************)
TwoRecordsOfOneUrl ==
    \E i, j \in Ingested :
        i # j /\ store[i].source_url = store[j].source_url

\* with the calls made one after the other (Spec), a call inserts no
\* record with the source_url of a record an earlier call inserted
SerialCallsNeverDuplicate ==
    ~\E i, j \in Ingested :
        /\ i <= before
        /\ before < j
        /\ store[i].source_url = store[j].source_url

\* with the calls run at the same time and no external call failing, both
\* have found the source_url absent and both have inserted it
DuplicateByRace ==
    /\ faults = 0
    /\ TwoRecordsOfOneUrl
    /\ \A c \in Invocations :
          running[c].pc = "done" /\ running[c].stats.saved = 1

\* one after the other and with no external call failing, there is none
SerialAndUnfailingNeverDuplicate == faults = 0 => ~TwoRecordsOfOneUrl

=============================================================================
